---------------------------- MODULE Spec2Model ----------------------------
(***************************************************************************)
(* A model of clean_osm/cl.py: the streaming element extractor             *)
(* (get_element), the element flattener (element2dict), the partitioner    *)
(* with its freshness cache (pf) and the three field fixups.               *)
(*                                                                         *)
(* Python strings whose characters the code inspects (tag keys, tag and    *)
(* attribute values) are sequences of one-character strings.  Element      *)
(* kinds and attribute names, which the code only compares, are TLA+       *)
(* strings.  A Python dict is a function; the empty dict is <<>>.          *)
(*                                                                         *)
(* Four specifications share the module, one per component:                *)
(*   SpecFlat    element2dict, one action per iteration of its tag loop    *)
(*   SpecStream  get_element, one action per parser event                  *)
(*   SpecFix     fix_city, fix_province, fix_postal_codes on one record    *)
(*   Spec        pf over a file system with a clock                        *)
(***************************************************************************)
EXTENDS Integers, Sequences, FiniteSets, TLC

VARIABLES
    e_in,       \* element2dict: the element e being flattened
    d,          \* element2dict: the dictionary d under construction
    e2d_i,      \* element2dict: number of "tag" children already processed
    e2d_pc,     \* element2dict: "idle", "call", "loop" or "return"
    osm_doc,    \* get_element: the document behind osm_fn
    ge_pos,     \* get_element: number of parser events taken from context
    ge_out,     \* get_element: the elements yielded so far (their paths)
    ge_root,    \* get_element: number of children attached to root
    ge_pc,      \* get_element: "idle", "open", "loop", "done" or "ParseError"
    fix_doc,    \* fixups: the record doc the fixups are mapped over
    fix_prev,   \* fixups: the record handed to the last fixup
    fix_last,   \* fixups: the last fixup called, "" before the first
    fix_raised, \* fixups: "none", or the exception the last fixup raised
    clock,      \* pf: the time that file modifications are stamped with
    cpu,        \* pf: multiprocessing.cpu_count() of the host
    fs_map,     \* pf: the source file fn (map.osm)
    fs_slxml,   \* pf: the one-element-per-line file map_slxml.osm
    fs_parts,   \* pf: the files map_partition_<i>.osm, by i
    pf_ret,     \* pf: what the call made in this step came to
    refreshed   \* pf: history, what the last completed refresh wrote and returned

flat_vars == <<e_in, d, e2d_i, e2d_pc>>
stream_vars == <<osm_doc, ge_pos, ge_out, ge_root, ge_pc>>
fix_vars == <<fix_doc, fix_prev, fix_last, fix_raised>>
pf_vars == <<clock, cpu, fs_map, fs_slxml, fs_parts, pf_ret, refreshed>>
vars == <<flat_vars, stream_vars, fix_vars, pf_vars>>

\* what each component leaves alone
not_flat == <<stream_vars, fix_vars, pf_vars>>
not_stream == <<flat_vars, fix_vars, pf_vars>>
not_fix == <<flat_vars, stream_vars, pf_vars>>
not_pf == <<flat_vars, stream_vars, fix_vars>>

---------------------------------------------------------------------------
(* Bounds of the model *)

\* longest list of children of one flattened element
MaxTags == 3

\* most children of the root of a streamed document
MaxTop == 2

\* most children of a child of the root of a streamed document
MaxNested == 1

\* most children of the root of a document given to pf
MaxElems == 2

\* largest cpu_count() of a host
MaxCores == 4

\* last tick of the clock
MaxClock == 2

---------------------------------------------------------------------------
(* Strings *)

city == <<"c", "i", "t", "y">>
en == <<"e", "n">>
root_key == <<"r", "o", "o", "t">>
colon == <<":">>
X == <<"X">>
Y == <<"Y">>

\* ':' in k
HasColon(k) == \E j \in 1..Len(k) : k[j] = ":"

\* index of the first ':' of k (k has one)
FirstColon(k) == CHOOSE j \in 1..Len(k) : k[j] = ":" /\ \A h \in 1..(j - 1) : k[h] # ":"

RECURSIVE str_split(_)
\* k.split(':'): the list of the segments between the colons
str_split(k) ==
    IF ~HasColon(k) THEN <<k>>
    ELSE <<SubSeq(k, 1, FirstColon(k) - 1)>>
             \o str_split(SubSeq(k, FirstColon(k) + 1, Len(k)))

RECURSIVE str_join(_, _)
\* sep.join(parts)
str_join(sep, parts) ==
    IF parts = <<>> THEN <<>>
    ELSE IF Len(parts) = 1 THEN parts[1]
    ELSE parts[1] \o sep \o str_join(sep, Tail(parts))

---------------------------------------------------------------------------
(* Elements and dictionaries *)

\* an xml.etree Element: its tag, its attrib mapping and its child elements
Elem(t, a, cs) == [tag |-> t, attrib |-> a, children |-> cs]

\* <tag k="..." v="..."/>
TagChild(k, v) == Elem("tag", [k |-> k, v |-> v], <<>>)

\* a value of d['tag']: a string (leaf) or a nested mapping (branch)
Leaf(v) == [isdict |-> FALSE, str |-> v, sub |-> <<>>]
Branch(m) == [isdict |-> TRUE, str |-> <<>>, sub |-> m]

\* m[k] = v on a dict
DictSet(m, k, v) == [x \in (DOMAIN m) \cup {k} |-> IF x = k THEN v ELSE m[x]]

NoElem == Elem("", <<>>, <<>>)
EmptyDict == [type |-> "", attr |-> <<>>, tag |-> <<>>]

\* a source document: the tree under its root element, and how many of its
\* parser events are delivered before the text stops being well-formed
\* (all of them when the document is well-formed)
Doc(r, n) == [root |-> r, cut |-> n]
NoDoc == Doc(NoElem, 0)

\* a component that a specification does not run
FlatIdle == e_in = NoElem /\ d = EmptyDict /\ e2d_i = 0 /\ e2d_pc = "idle"
StreamIdle ==
    osm_doc = NoDoc /\ ge_pos = 0 /\ ge_out = <<>> /\ ge_root = 0 /\ ge_pc = "idle"
FixIdle == fix_doc = EmptyDict /\ fix_prev = EmptyDict /\ fix_last = "" /\ fix_raised = "none"

\* a file that does not exist, and the files pf reads and writes
NoSource == [exists |-> FALSE, doc |-> NoDoc, mtime |-> 0]
SourceFile(dc, t) == [exists |-> TRUE, doc |-> dc, mtime |-> t]
NoText == [exists |-> FALSE, lines |-> <<>>, mtime |-> 0]
TextFile(ls, t) == [exists |-> TRUE, lines |-> ls, mtime |-> t]

\* what a pf call comes to: the exception it raises, or the path it took with
\* the bag it returns (its records in partition order, its npartitions)
NoRet ==
    [outcome |-> "none", force |-> FALSE, records |-> <<>>, npartitions |-> 0,
     fsize |-> 0, blocksize |-> 0]
NoRefresh == [done |-> FALSE, written |-> {}, records |-> <<>>]

PfIdle ==
    /\ clock = 0
    /\ cpu = 0
    /\ fs_map = NoSource
    /\ fs_slxml = NoText
    /\ fs_parts = <<>>
    /\ pf_ret = NoRet
    /\ refreshed = NoRefresh

---------------------------------------------------------------------------
(* element2dict *)

\* e.findall("tag"): the direct children named "tag", in document order
findall_tag(e) == SelectSeq(e.children, LAMBDA c : c.tag = "tag")

\* plausible slip: only the first segment after the prefix is kept
tag_loop_body_first_segment(tag, k, v) ==
    IF HasColon(k)
    THEN LET split_a == str_split(k)
             sk == split_a[1]
             sv == split_a[2]
             t1 == IF sk \notin DOMAIN tag THEN DictSet(tag, sk, Branch(<<>>)) ELSE tag
             t2 == IF ~t1[sk].isdict
                   THEN DictSet(t1, sk, Branch(DictSet(<<>>, root_key, t1[sk].str)))
                   ELSE t1
         IN DictSet(t2, sk, Branch(DictSet(t2[sk].sub, sv, v)))
    ELSE DictSet(tag, k, Leaf(v))

\* one iteration of the loop over the "tag" children: d['tag'] after the
\* child (k, v), given d['tag'] before it
tag_loop_body(tag, k, v) ==
    IF HasColon(k)
    THEN LET split_a == str_split(k)
             sk == split_a[1]
             sv == str_join(<<"_">>, Tail(split_a))
             t1 == IF sk \notin DOMAIN tag THEN DictSet(tag, sk, Branch(<<>>)) ELSE tag
             t2 == IF ~t1[sk].isdict
                   THEN DictSet(t1, sk, Branch(DictSet(<<>>, root_key, t1[sk].str)))
                   ELSE t1
         IN DictSet(t2, sk, Branch(DictSet(t2[sk].sub, sv, v)))
    ELSE DictSet(tag, k, Leaf(v))

RECURSIVE tag_loop(_, _)
\* the whole loop over the children cs, starting from tag
tag_loop(cs, tag) ==
    IF cs = <<>> THEN tag
    ELSE tag_loop(Tail(cs), tag_loop_body(tag, cs[1].attrib.k, cs[1].attrib.v))

\* d as it stands before the loop over the "tag" children
dict_head(e) == [type |-> e.tag, attr |-> e.attrib, tag |-> <<>>]

element2dict(e) == [dict_head(e) EXCEPT !.tag = tag_loop(findall_tag(e), <<>>)]

---------------------------------------------------------------------------
(* SpecFlat: element2dict on one element, one tag child at a time *)

FlatKeys ==
    { city, en, city \o colon \o en, city \o colon \o root_key,
      city \o colon \o en \o colon \o en, city \o colon \o colon \o en }

FlatChildren ==
    { TagChild(k, v) : k \in FlatKeys, v \in {X, Y} } \cup { Elem("nd", <<>>, <<>>) }

SeqsUpTo(S, n) == UNION { [1..m -> S] : m \in 0..n }

FlatElements == { Elem("node", <<>>, cs) : cs \in SeqsUpTo(FlatChildren, MaxTags) }

InitFlat ==
    /\ e_in \in FlatElements
    /\ d = EmptyDict
    /\ e2d_i = 0
    /\ e2d_pc = "call"
    /\ StreamIdle
    /\ FixIdle
    /\ PfIdle

\* d = {}; d['type'] = e.tag; d['attr'] = ...; d['tag'] = {}
E2dEnter ==
    /\ e2d_pc = "call"
    /\ d' = dict_head(e_in)
    /\ e2d_pc' = "loop"
    /\ UNCHANGED <<e_in, e2d_i, not_flat>>

\* one iteration of  for c in e.findall("tag")
E2dTag ==
    /\ e2d_pc = "loop"
    /\ e2d_i < Len(findall_tag(e_in))
    /\ LET c == findall_tag(e_in)[e2d_i + 1]
       IN d' = [d EXCEPT !.tag = tag_loop_body(d.tag, c.attrib.k, c.attrib.v)]
    /\ e2d_i' = e2d_i + 1
    /\ UNCHANGED <<e_in, e2d_pc, not_flat>>

\* return d
E2dReturn ==
    /\ e2d_pc = "loop"
    /\ e2d_i = Len(findall_tag(e_in))
    /\ e2d_pc' = "return"
    /\ UNCHANGED <<e_in, d, e2d_i, not_flat>>

NextFlat == E2dEnter \/ E2dTag \/ E2dReturn

SpecFlat == InitFlat /\ [][NextFlat]_vars

---------------------------------------------------------------------------
(* C3 *)

\* the suffix of a colon key as the rule words it: the text after the first
\* colon, its remaining colons replaced by underscores
RuleSuffix(k) ==
    LET rest == SubSeq(k, FirstColon(k) + 1, Len(k))
    IN [j \in 1..Len(rest) |-> IF rest[j] = ":" THEN "_" ELSE rest[j]]

RulePrefix(k) == SubSeq(k, 1, FirstColon(k) - 1)

\* tags after the child (k, v) according to the rule
RuleTags(tag, k, v) ==
    IF ~HasColon(k) THEN DictSet(tag, k, Leaf(v))
    ELSE LET p == RulePrefix(k)
             old == IF p \notin DOMAIN tag THEN <<>>
                    ELSE IF tag[p].isdict THEN tag[p].sub
                    ELSE DictSet(<<>>, root_key, tag[p].str)
         IN DictSet(tag, p, Branch(DictSet(old, RuleSuffix(k), v)))

CityThenCityEn == <<TagChild(city, X), TagChild(city \o colon \o en, Y)>>

\* C3: every iteration of the tag loop changes d['tag'] as the rule says
\* (plain key: tags[k] = v; colon key: split at the first colon, remaining
\* colons to underscores, prefix created or promoted to {"root": old}, then
\* tags[prefix][suffix] = v), and an element whose tag children are
\* ("city","X") then ("city:en","Y") returns tags["city"] =
\* {"root": "X", "en": "Y"}.
C3_FlattenRule ==
    /\ [][e2d_i' = e2d_i + 1 =>
            LET c == findall_tag(e_in)[e2d_i + 1]
            IN d'.tag = RuleTags(d.tag, c.attrib.k, c.attrib.v)]_vars
    /\ [](e2d_pc = "return" =>
            /\ d = element2dict(e_in)
            /\ findall_tag(e_in) = CityThenCityEn =>
                 d.tag = DictSet(<<>>, city,
                            Branch(DictSet(DictSet(<<>>, root_key, X), en, Y))))

\* the collision example has been flattened to its end
C3_Witness ==
    /\ e2d_pc = "return"
    /\ findall_tag(e_in) = CityThenCityEn
    /\ d.tag[city].isdict
    /\ DOMAIN d.tag[city].sub = {root_key, en}

\* C4: a key that is both a plain key (p, x) and the prefix of a colon key
\* (p:s, y), in either order, ends as the nested mapping {"root": x, s: y},
\* and a tags[p] that has become a nested mapping stays one for the rest of
\* the element.
C4_LeafAndBranchKept ==
    /\ [][\A p \in DOMAIN d.tag :
            d.tag[p].isdict => (p \in DOMAIN d'.tag /\ d'.tag[p].isdict)]_vars
    /\ [](e2d_pc = "return" =>
            \A a, b \in 1..Len(findall_tag(e_in)) :
                LET ca == findall_tag(e_in)[a].attrib
                    cb == findall_tag(e_in)[b].attrib
                IN (/\ Len(findall_tag(e_in)) = 2
                    /\ ~HasColon(ca.k)
                    /\ HasColon(cb.k)
                    /\ RulePrefix(cb.k) = ca.k
                    /\ RuleSuffix(cb.k) # root_key)
                   => d.tag[ca.k] =
                        Branch(DictSet(DictSet(<<>>, root_key, ca.v), RuleSuffix(cb.k), cb.v)))

\* the colon key came first and the plain key second, and the loop is over
C4_Witness ==
    /\ e2d_pc = "return"
    /\ findall_tag(e_in) = <<TagChild(city \o colon \o en, Y), TagChild(city, X)>>

---------------------------------------------------------------------------
(* get_element *)

\* the kinds get_element lets through by default
default_tags == {"node", "way", "relation"}

RECURSIVE ElemAt(_, _)
\* the element at a path of child indexes below r
ElemAt(r, path) == IF path = <<>> THEN r ELSE ElemAt(r.children[path[1]], Tail(path))

RECURSIVE Events(_, _)
RECURSIVE ChildEvents(_, _, _)
\* the (event, element) pairs ET.iterparse(events=('start', 'end')) delivers
\* for the subtree r at path: its start, its children's events, its end
Events(r, path) ==
    <<<<"start", path>>>> \o ChildEvents(r, path, 1) \o <<<<"end", path>>>>

ChildEvents(r, path, j) ==
    IF j > Len(r.children) THEN <<>>
    ELSE Events(r.children[j], Append(path, j)) \o ChildEvents(r, path, j + 1)

\* the events a document delivers before the parser stops or fails
Delivered(doc) == SubSeq(Events(doc.root, <<>>), 1, doc.cut)

WellFormed(doc) == doc.cut = Len(Events(doc.root, <<>>))

\* one iteration of  for event, elem in context: the elements yielded after
\* the event ev, given those yielded before it
loop_body(out, ev, doc, tags) ==
    IF ev[1] = "end"
    THEN IF ElemAt(doc.root, ev[2]).tag \in tags THEN Append(out, ev[2]) ELSE out
    ELSE out

RECURSIVE event_loop(_, _, _, _)
event_loop(evs, out, doc, tags) ==
    IF evs = <<>> THEN out
    ELSE event_loop(Tail(evs), loop_body(out, evs[1], doc, tags), doc, tags)

\* everything get_element(osm_fn, tags) yields before it stops or raises:
\* the first event (the root's start) is taken by next(context)
get_element(doc, tags) == event_loop(Tail(Delivered(doc)), <<>>, doc, tags)

\* get_element raises ParseError instead of stopping
get_element_raises(doc) == ~WellFormed(doc)

---------------------------------------------------------------------------
(* SpecStream: get_element on one document, one parser event at a time *)

StreamLeaves == { Elem(t, <<>>, <<>>) : t \in {"nd", "node"} }

StreamTops ==
    { Elem(t, <<>>, cs) : t \in {"way", "bounds"},
                          cs \in SeqsUpTo(StreamLeaves, MaxNested) }

StreamRoots ==
    { Elem(t, <<>>, cs) : t \in {"osm", "node"}, cs \in SeqsUpTo(StreamTops, MaxTop) }

\* each tree as a well-formed document, as one that is broken from its first
\* byte, and as one that breaks off halfway
StreamDocs ==
    UNION { { Doc(r, n) : n \in {0, Len(Events(r, <<>>)) \div 2, Len(Events(r, <<>>))} } :
            r \in StreamRoots }

InitStream ==
    /\ osm_doc \in StreamDocs
    /\ ge_pos = 0
    /\ ge_out = <<>>
    /\ ge_root = 0
    /\ ge_pc = "open"
    /\ FlatIdle
    /\ FixIdle
    /\ PfIdle

\* _event, root = next(context)
GeFirst ==
    /\ ge_pc = "open"
    /\ osm_doc.cut > 0
    /\ ge_pos' = 1
    /\ ge_pc' = "loop"
    /\ UNCHANGED <<osm_doc, ge_out, ge_root, not_stream>>

\* one iteration of the loop: the parser attaches a child of the root when it
\* starts; a yielded element is followed by root.clear()
GeEvent ==
    /\ ge_pc = "loop"
    /\ ge_pos < osm_doc.cut
    /\ LET ev == Delivered(osm_doc)[ge_pos + 1]
           out == loop_body(ge_out, ev, osm_doc, default_tags)
       IN /\ ge_out' = out
          /\ ge_root' = IF out # ge_out THEN 0
                        ELSE IF ev[1] = "start" /\ Len(ev[2]) = 1 THEN ge_root + 1
                        ELSE ge_root
    /\ ge_pos' = ge_pos + 1
    /\ UNCHANGED <<osm_doc, ge_pc, not_stream>>

\* the events are exhausted: the generator stops
GeStop ==
    /\ ge_pc = "loop"
    /\ ge_pos = osm_doc.cut
    /\ WellFormed(osm_doc)
    /\ ge_pc' = "done"
    /\ UNCHANGED <<osm_doc, ge_pos, ge_out, ge_root, not_stream>>

\* the text is not well-formed from here on: ParseError reaches the caller
GeParseError ==
    /\ ge_pc \in {"open", "loop"}
    /\ ge_pos = osm_doc.cut
    /\ ~WellFormed(osm_doc)
    /\ ge_pc' = "ParseError"
    /\ UNCHANGED <<osm_doc, ge_pos, ge_out, ge_root, not_stream>>

NextStream == GeFirst \/ GeEvent \/ GeStop \/ GeParseError

SpecStream == InitStream /\ [][NextStream]_vars

---------------------------------------------------------------------------
(* C2 *)

\* the children of the root whose kind is allowed, in document order
TopLevelAllowed(doc, tags) ==
    LET idx == SelectSeq([j \in 1..Len(doc.root.children) |-> j],
                         LAMBDA j : doc.root.children[j].tag \in tags)
    IN [n \in 1..Len(idx) |-> <<idx[n]>>]

\* C2: on a well-formed document get_element yields exactly the children of
\* the root whose kind is allowed, once each and in document order; the root
\* and every deeper element are never yielded.
C2_TopLevelOnly ==
    ge_pc = "done" =>
        /\ ge_out = TopLevelAllowed(osm_doc, default_tags)
        /\ ge_out = get_element(osm_doc, default_tags)

\* a node nested in a way has been streamed to the end of the document
C2_Witness ==
    /\ ge_pc = "done"
    /\ osm_doc.root.tag = "osm"
    /\ Len(osm_doc.root.children) = 1
    /\ osm_doc.root.children[1] = Elem("way", <<>>, <<Elem("node", <<>>, <<>>)>>)

---------------------------------------------------------------------------
(* The fixups *)

addr == <<"a", "d", "d", "r">>
province == <<"p", "r", "o", "v", "i", "n", "c", "e">>
postcode == <<"p", "o", "s", "t", "c", "o", "d", "e">>
Edmonton == <<"E", "d", "m", "o", "n", "t", "o", "n">>
Alberta == <<"A", "l", "b", "e", "r", "t", "a">>

\* the names the module binds with its import statements
module_imports ==
    {"os", "requests", "pd", "multiprocessing", "ET", "defaultdict", "db", "jp", "json"}

\* what a fixup call comes to: the record it returns, or the exception
Returned(r) == [raised |-> "none", doc |-> r]
Raised(x, r) == [raised |-> x, doc |-> r]

\* jp.compile('tag.addr.<field>').search(doc): the string at that path, or
\* None (here found = FALSE) when a step of the path is missing or is taken
\* on a string
jp_search(r, field) ==
    IF addr \in DOMAIN r.tag /\ r.tag[addr].isdict /\ field \in DOMAIN r.tag[addr].sub
    THEN [found |-> TRUE, value |-> r.tag[addr].sub[field]]
    ELSE [found |-> FALSE, value |-> <<>>]

\* if value:
Truthy(res) == res.found /\ res.value # <<>>

\* doc['tag']['addr'][field] = s
SetAddr(r, field, s) ==
    [r EXCEPT !.tag = DictSet(r.tag, addr, Branch(DictSet(r.tag[addr].sub, field, s)))]

fix_city(r) ==
    Returned(IF Truthy(jp_search(r, city)) THEN SetAddr(r, city, Edmonton) ELSE r)

fix_province(r) ==
    Returned(IF Truthy(jp_search(r, province)) THEN SetAddr(r, province, Alberta) ELSE r)

LowerCase == {"t", "y", "j", "u", "n", "k"}
UpperCase == {"T", "Y", "J", "U", "N", "K"}
Digits == {"1", "2", "5"}

\* [A-Z] under re.IGNORECASE, \d, and [-\s]
IsLetter(c) == c \in LowerCase \cup UpperCase
IsDigit(c) == c \in Digits
IsSeparator(c) == c \in {"-", " "}

\* str.upper() on one character
upper_char(c) ==
    CASE c = "t" -> "T" [] c = "y" -> "Y" [] c = "j" -> "J"
      [] c = "u" -> "U" [] c = "n" -> "N" [] c = "k" -> "K" [] OTHER -> c

upper(s) == [j \in 1..Len(s) |-> upper_char(s[j])]

\* ([A-Z]\d[A-Z]) matches at position j of s
Group1At(s, j) ==
    j + 2 <= Len(s) /\ IsLetter(s[j]) /\ IsDigit(s[j + 1]) /\ IsLetter(s[j + 2])

\* (\d[A-Z]\d) matches at position j of s
Group2At(s, j) ==
    j + 2 <= Len(s) /\ IsDigit(s[j]) /\ IsLetter(s[j + 1]) /\ IsDigit(s[j + 2])

\* the position after the longest run of separators that starts at j
RECURSIVE SkipSeparators(_, _)
SkipSeparators(s, j) ==
    IF j <= Len(s) /\ IsSeparator(s[j]) THEN SkipSeparators(s, j + 1) ELSE j

\* pc_re.search(value): the leftmost match.  The second group cannot begin
\* with a separator, so it matches exactly when it follows the whole run.
pc_re_search(s) ==
    IF \E j \in 1..Len(s) : Group1At(s, j)
    THEN LET j == CHOOSE j \in 1..Len(s) :
                      Group1At(s, j) /\ \A h \in 1..(j - 1) : ~Group1At(s, h)
             g == SkipSeparators(s, j + 3)
         IN [matched |-> TRUE,
             group1 |-> SubSeq(s, j, j + 2),
             group2 |-> IF Group2At(s, g) THEN SubSeq(s, g, g + 2) ELSE <<>>]
    ELSE [matched |-> FALSE, group1 |-> <<>>, group2 |-> <<>>]

\* the body of fix_postal_codes once re.compile has returned
postal_body(r) ==
    LET value == jp_search(r, postcode)
        matches == pc_re_search(value.value)
        s == IF matches.group2 # <<>>
             THEN matches.group1 \o <<" ">> \o matches.group2
             ELSE matches.group1
    IN IF Truthy(value) /\ matches.matched THEN SetAddr(r, postcode, upper(s)) ELSE r

\* the first statement to run looks up the global name re, which no import
\* of the module binds
fix_postal_codes(r) ==
    IF "re" \notin module_imports THEN Raised("NameError", r)
    ELSE Returned(postal_body(r))

---------------------------------------------------------------------------
(* SpecFix: the fixups mapped over one record, in any order, any number of
   times, until one raises *)

t5t_1y2 == <<"t", "5", "t", "-", "1", "y", "2">>
T5T_1Y2 == <<"T", "5", "T", " ", "1", "Y", "2">>
junk == <<"j", "u", "n", "k">>

PostcodeValues == {t5t_1y2, T5T_1Y2, junk, <<"t", "5", "t">>, <<>>}
CityValues == {<<"e", "d", "m">>, <<>>}
ProvinceValues == {<<"A", "B">>}

\* the tag children of an input element: each address field absent or present
OptionalTag(k, vals) == {<<>>} \cup { <<TagChild(k, v)>> : v \in vals }

FixElements ==
    { Elem("node", <<>>, a \o b \o c) :
        a \in OptionalTag(addr \o colon \o postcode, PostcodeValues),
        b \in OptionalTag(addr \o colon \o city, CityValues) \cup {<<TagChild(addr, X)>>},
        c \in OptionalTag(addr \o colon \o province, ProvinceValues) }

InitFix ==
    /\ \E e \in FixElements : fix_doc = element2dict(e)
    /\ fix_prev = EmptyDict
    /\ fix_last = ""
    /\ fix_raised = "none"
    /\ FlatIdle
    /\ StreamIdle
    /\ PfIdle

\* the map step calls fixup name on the record
FixCall(name, res) ==
    /\ fix_raised = "none"
    /\ fix_prev' = fix_doc
    /\ fix_last' = name
    /\ fix_raised' = res.raised
    /\ fix_doc' = res.doc
    /\ UNCHANGED not_fix

FixCity == FixCall("fix_city", fix_city(fix_doc))
FixProvince == FixCall("fix_province", fix_province(fix_doc))
FixPostalCodes == FixCall("fix_postal_codes", fix_postal_codes(fix_doc))

NextFix == FixCity \/ FixProvince \/ FixPostalCodes

SpecFix == InitFix /\ [][NextFix]_vars

---------------------------------------------------------------------------
(* C9, C10 *)

HasPostcode(r) == jp_search(r, postcode).found

\* C9: fix_postal_codes raises nothing; "t5t-1y2" becomes "T5T 1Y2", and a
\* record whose postcode is "junk" or absent is returned unchanged.
C9_PostalFixup ==
    fix_last = "fix_postal_codes" =>
        /\ fix_raised = "none"
        /\ jp_search(fix_prev, postcode).value = t5t_1y2 =>
              fix_doc = SetAddr(fix_prev, postcode, T5T_1Y2)
        /\ (~HasPostcode(fix_prev) \/ jp_search(fix_prev, postcode).value = junk) =>
              fix_doc = fix_prev

\* fix_postal_codes has been called on a record whose postcode is "t5t-1y2"
C9_Witness ==
    /\ fix_last = "fix_postal_codes"
    /\ jp_search(fix_prev, postcode).value = t5t_1y2

Fixups == {"fix_city", "fix_province", "fix_postal_codes"}

\* fixup name applied to what an earlier call came to
Apply(name, res) ==
    IF res.raised # "none" THEN res
    ELSE CASE name = "fix_city" -> fix_city(res.doc)
           [] name = "fix_province" -> fix_province(res.doc)
           [] name = "fix_postal_codes" -> fix_postal_codes(res.doc)

\* C10: every fixup returns a record; applying it twice gives what applying
\* it once gives; the three applied in any order give the same record; and
\* an absent tags.addr.city stays absent while a non-empty one becomes the
\* canonical city.
C10_FixupsCompose ==
    /\ fix_raised = "none"
    /\ \A f \in Fixups :
          LET once == Apply(f, Returned(fix_doc))
          IN once.raised = "none" => Apply(f, once) = once
    /\ \A f, g, h \in Fixups :
          LET fgh == Apply(h, Apply(g, Apply(f, Returned(fix_doc))))
              cpz == Apply("fix_postal_codes",
                           Apply("fix_province", Apply("fix_city", Returned(fix_doc))))
          IN ({f, g, h} = Fixups /\ fgh.raised = "none" /\ cpz.raised = "none")
                => fgh = cpz
    /\ fix_last = "fix_city" =>
          /\ jp_search(fix_doc, city).found = jp_search(fix_prev, city).found
          /\ Truthy(jp_search(fix_prev, city)) => jp_search(fix_doc, city).value = Edmonton

\* all three fixups have been called, fix_postal_codes last
C10_Witness ==
    /\ fix_last = "fix_postal_codes"
    /\ jp_search(fix_prev, city).value = Edmonton
    /\ jp_search(fix_prev, province).value = Alberta

---------------------------------------------------------------------------
(* pf: serialisation *)

RECURSIVE collapse(_)
\* what ' '.join(s.strip().split()) does to the text of an attribute value
\* inside s: every run of spaces becomes one space (the quotes around the
\* value keep a space at either end of it from being stripped)
collapse(v) ==
    IF Len(v) <= 1 THEN v
    ELSE IF v[1] = " " /\ v[2] = " " THEN collapse(Tail(v))
    ELSE <<v[1]>> \o collapse(Tail(v))

RECURSIVE one_line(_)
\* s1: the element that the line written for e parses back to.  tostring
\* escapes newlines and tabs of attribute values, so spaces are the only
\* whitespace of a value that the split sees.
one_line(e) ==
    [tag |-> e.tag,
     attrib |-> [a \in DOMAIN e.attrib |-> collapse(e.attrib[a])],
     children |-> [j \in 1..Len(e.children) |-> one_line(e.children[j])]]

RECURSIVE SumFn(_)
\* the sum of the values of a function
SumFn(f) ==
    IF DOMAIN f = {} THEN 0
    ELSE LET x == CHOOSE x \in DOMAIN f : TRUE
         IN f[x] + SumFn([y \in (DOMAIN f) \ {x} |-> f[y]])

RECURSIVE text_len(_)
\* len of the text of an element: <tag a="v" ... /> or <tag ...>children</tag>
text_len(e) ==
    LET attr_len == [a \in DOMAIN e.attrib |-> Len(a) + Len(e.attrib[a]) + 4]
        child_len == [j \in 1..Len(e.children) |-> text_len(e.children[j])]
    IN 1 + Len(e.tag) + SumFn(attr_len)
         + IF e.children = <<>> THEN 3
           ELSE 1 + SumFn(child_len) + 3 + Len(e.tag)

\* bytes of the line of an element in the file: its text and the '\n'
line_bytes(l) == text_len(l) + 1

\* os.path.getsize of a file of these lines
getsize(ls) == SumFn([j \in 1..Len(ls) |-> line_bytes(ls[j])])

\* the lines pf writes to out_fn for the elements yielded, in order
slxml_lines(dc) ==
    LET out == get_element(dc, default_tags)
    IN [j \in 1..Len(out) |-> one_line(ElemAt(dc.root, out[j]))]

---------------------------------------------------------------------------
(* pf: db.read_text(out_fn, blocksize) and to_textfiles *)

\* offset of the first byte of line j, and of the byte after its '\n'
line_start(ls, j) == getsize(SubSeq(ls, 1, j - 1))
line_end(ls, j) == getsize(SubSeq(ls, 1, j))

\* where a block whose nominal offset is x begins: at 0, or after the first
\* '\n' at or after x, or at the end of the file
block_begin(ls, x) ==
    IF x = 0 THEN 0
    ELSE LET ends == { line_end(ls, j) : j \in 1..Len(ls) }
             after == { b \in ends : b > x }
         IN IF after = {} THEN getsize(ls)
            ELSE CHOOSE b \in after : \A c \in after : b <= c

\* the blocks start at the offsets range(0, size, blocksize)
n_blocks(size, blocksize) == (size + blocksize - 1) \div blocksize

\* the lines of block j (from 0): those that begin in it
block_lines(ls, blocksize, j) ==
    LET idx == SelectSeq([h \in 1..Len(ls) |-> h],
                         LAMBDA h : /\ block_begin(ls, j * blocksize) <= line_start(ls, h)
                                    /\ line_start(ls, h) < block_begin(ls, (j + 1) * blocksize))
    IN [n \in 1..Len(idx) |-> ls[idx[n]]]

\* fsize_bytes // num_cores + 1
blocksize_of(fsize_bytes, num_cores) == fsize_bytes \div num_cores + 1

\* b.to_textfiles: partition j of the bag goes to map_partition_<j>.osm; the
\* other files of that name pattern are not touched
to_textfiles(parts, ls, blocksize, t) ==
    LET n == n_blocks(getsize(ls), blocksize)
    IN [j \in (DOMAIN parts) \cup (0..(n - 1)) |->
          IF j < n THEN TextFile(block_lines(ls, blocksize, j), t) ELSE parts[j]]

RECURSIVE glob_lines(_, _)
\* db.read_text('map_partition_*.osm'): the lines of the files that match, in
\* the order of their names (the indexes have one digit)
glob_lines(parts, S) ==
    IF S = {} THEN <<>>
    ELSE LET j == CHOOSE j \in S : \A h \in S : j <= h
         IN parts[j].lines \o glob_lines(parts, S \ {j})

\* b.map(ET.XML).map(element2dict) over the lines of a bag
records_of(ls) == [j \in 1..Len(ls) |-> element2dict(ls[j])]

---------------------------------------------------------------------------
(* pf *)

\* plausible slip: partitions as old as the source count as fresh
fresh_or_equal(src, parts, force_refresh) ==
    LET mod_time_map == src.mtime
        mod_time_p1 == IF 0 \in DOMAIN parts THEN parts[0].mtime ELSE 0
    IN mod_time_map <= mod_time_p1 /\ ~force_refresh

\* mod_time_map < mod_time_p1 and not force_refresh
fresh(src, parts, force_refresh) ==
    LET mod_time_map == src.mtime
        mod_time_p1 == IF 0 \in DOMAIN parts THEN parts[0].mtime ELSE 0
    IN mod_time_map < mod_time_p1 /\ ~force_refresh

Ret(o, f, rs, n, sz, bs) ==
    [outcome |-> o, force |-> f, records |-> rs, npartitions |-> n,
     fsize |-> sz, blocksize |-> bs]

\* assert(os.path.exists(fn)) fails
PfNoSource(force_refresh) ==
    /\ ~fs_map.exists
    /\ pf_ret' = Ret("AssertionError", force_refresh, <<>>, 0, 0, 0)
    /\ UNCHANGED <<clock, cpu, fs_map, fs_slxml, fs_parts, refreshed, not_pf>>

\* "partition files still fresh": the bag is read from the files that match
PfReuse(force_refresh) ==
    /\ fs_map.exists
    /\ fresh(fs_map, fs_parts, force_refresh)
    /\ pf_ret' = Ret("reuse", force_refresh,
                     records_of(glob_lines(fs_parts, DOMAIN fs_parts)),
                     Cardinality(DOMAIN fs_parts), 0, 0)
    /\ UNCHANGED <<clock, cpu, fs_map, fs_slxml, fs_parts, refreshed, not_pf>>

\* "making fresh partition files", and get_element raises ParseError inside
\* the with block: out_fn is closed holding the lines written so far
PfParseError(force_refresh) ==
    /\ fs_map.exists
    /\ ~fresh(fs_map, fs_parts, force_refresh)
    /\ get_element_raises(fs_map.doc)
    /\ fs_slxml' = TextFile(slxml_lines(fs_map.doc), clock)
    /\ pf_ret' = Ret("ParseError", force_refresh, <<>>, 0, 0, 0)
    /\ UNCHANGED <<clock, cpu, fs_map, fs_parts, refreshed, not_pf>>

\* "making fresh partition files", and the loop over get_element never binds
\* i: line_count = i raises UnboundLocalError after out_fn is written empty
PfUnbound(force_refresh) ==
    /\ fs_map.exists
    /\ ~fresh(fs_map, fs_parts, force_refresh)
    /\ ~get_element_raises(fs_map.doc)
    /\ slxml_lines(fs_map.doc) = <<>>
    /\ fs_slxml' = TextFile(<<>>, clock)
    /\ pf_ret' = Ret("UnboundLocalError", force_refresh, <<>>, 0, 0, 0)
    /\ UNCHANGED <<clock, cpu, fs_map, fs_parts, refreshed, not_pf>>

\* "making fresh partition files", to the end
PfRefresh(force_refresh) ==
    /\ fs_map.exists
    /\ ~fresh(fs_map, fs_parts, force_refresh)
    /\ ~get_element_raises(fs_map.doc)
    /\ slxml_lines(fs_map.doc) # <<>>
    /\ LET ls == slxml_lines(fs_map.doc)
           fsize_bytes == getsize(ls)
           blocksize == blocksize_of(fsize_bytes, cpu)
           n == n_blocks(fsize_bytes, blocksize)
           ret == Ret("refresh", force_refresh, records_of(ls), n, fsize_bytes, blocksize)
       IN /\ fs_slxml' = TextFile(ls, clock)
          /\ fs_parts' = to_textfiles(fs_parts, ls, blocksize, clock)
          /\ pf_ret' = ret
          /\ refreshed' = [done |-> TRUE, written |-> 0..(n - 1), records |-> ret.records]
    /\ UNCHANGED <<clock, cpu, fs_map, not_pf>>

---------------------------------------------------------------------------
(* Spec: pf called again and again on a host whose source file changes *)

PfElements ==
    { Elem("way", <<>>, <<>>),
      Elem("node", [v |-> <<" ", " ">>], <<>>) }

PfRoots == { Elem("osm", <<>>, cs) : cs \in SeqsUpTo(PfElements, MaxElems) }

\* the well-formed documents, and the longest ones broken off after the end
\* of the first child of the root
PfDocs ==
    { Doc(r, Len(Events(r, <<>>))) : r \in PfRoots }
        \cup { Doc(r, 3) : r \in { q \in PfRoots : Len(q.children) = MaxElems } }

Init ==
    /\ clock = 1
    /\ cpu \in 1..MaxCores
    /\ fs_map = NoSource
    /\ fs_slxml = NoText
    /\ fs_parts = <<>>
    /\ pf_ret = NoRet
    /\ refreshed = NoRefresh
    /\ FlatIdle
    /\ StreamIdle
    /\ FixIdle

\* time passes
Tick ==
    /\ clock < MaxClock
    /\ clock' = clock + 1
    /\ pf_ret' = NoRet
    /\ UNCHANGED <<cpu, fs_map, fs_slxml, fs_parts, refreshed, not_pf>>

\* the source file is downloaded or edited
WriteSource ==
    /\ \E dc \in PfDocs : fs_map' = SourceFile(dc, clock)
    /\ pf_ret' = NoRet
    /\ UNCHANGED <<clock, cpu, fs_slxml, fs_parts, refreshed, not_pf>>

\* the source file is removed
RemoveSource ==
    /\ fs_map.exists
    /\ fs_map' = NoSource
    /\ pf_ret' = NoRet
    /\ UNCHANGED <<clock, cpu, fs_slxml, fs_parts, refreshed, not_pf>>

Pf ==
    \E force_refresh \in BOOLEAN :
        \/ PfNoSource(force_refresh)
        \/ PfReuse(force_refresh)
        \/ PfParseError(force_refresh)
        \/ PfUnbound(force_refresh)
        \/ PfRefresh(force_refresh)

Next == Tick \/ WriteSource \/ RemoveSource \/ Pf

Spec == Init /\ [][Next]_vars

---------------------------------------------------------------------------
(* C1, C5, C6, C7, C8 *)

\* the call of this step found the source and did not reuse the partitions
Regenerating == pf_ret.outcome \in {"refresh", "ParseError", "UnboundLocalError"}

\* element2dict over get_element(source) in one unpartitioned pass
single_pass(dc) ==
    LET out == get_element(dc, default_tags)
    IN [j \in 1..Len(out) |-> element2dict(ElemAt(dc.root, out[j]))]

\* C1: after pf has regenerated the partitions of a well-formed source, with
\* any number of elements, the partition files read in index order and
\* flattened line by line, and the bag pf returns, are the records of a
\* single unpartitioned pass, in the same order.
C1_PartitionComplete ==
    (Regenerating /\ WellFormed(fs_map.doc)) =>
        /\ pf_ret.outcome = "refresh"
        /\ pf_ret.records = single_pass(fs_map.doc)
        /\ records_of(glob_lines(fs_parts, 0..(pf_ret.npartitions - 1)))
              = single_pass(fs_map.doc)

\* pf has regenerated the partitions of a source with two elements
C1_Witness ==
    /\ pf_ret.outcome = "refresh"
    /\ Len(pf_ret.records) = 2
    /\ pf_ret.npartitions > 1

SentinelExists == 0 \in DOMAIN fs_parts

\* a pf call that reuses: no file changes, and the records are those read
\* back from the partition files
ReusesUnchanged ==
    /\ pf_ret'.outcome = "reuse"
    /\ fs_slxml' = fs_slxml
    /\ fs_parts' = fs_parts
    /\ pf_ret'.records = records_of(glob_lines(fs_parts, DOMAIN fs_parts))

\* this step is a pf call that found the source file
PfCallOnSource == pf_ret'.outcome \notin {"none", "AssertionError"}

\* C5 as claimed: without force_refresh and with the source not newer than
\* the sentinel partition (mtime less than or equal), pf reuses and writes
\* nothing; otherwise it regenerates.
C5_ReuseNotNewer ==
    [][PfCallOnSource =>
          IF ~pf_ret'.force /\ SentinelExists /\ fs_map.mtime <= fs_parts[0].mtime
          THEN ReusesUnchanged
          ELSE pf_ret'.outcome # "reuse"]_vars

\* C5 amended: without force_refresh and with the source strictly older than
\* the sentinel partition, pf reuses: it writes no file and returns the
\* records read back from the partition files; otherwise (source as new or
\* newer, sentinel missing, or force_refresh) it takes the regeneration path.
C5_ReuseStrictlyOlder ==
    [][PfCallOnSource =>
          IF ~pf_ret'.force /\ SentinelExists /\ fs_map.mtime < fs_parts[0].mtime
          THEN ReusesUnchanged
          ELSE pf_ret'.outcome # "reuse"]_vars

\* pf has reused partitions that hold records
C5_Witness ==
    /\ pf_ret.outcome = "reuse"
    /\ pf_ret.records # <<>>
    /\ fs_map.mtime < fs_parts[0].mtime

\* ceil(a / b)
CeilDiv(a, b) == (a + b - 1) \div b

\* C6: a regeneration that runs to its end gives exactly N = cpu_count()
\* partitions, the bag's and the files map_partition_<i>.osm for i in [0, N),
\* with the target size ceil(total_bytes / N), whatever the size of the
\* intermediate file.
C6_ExactlyNPartitions ==
    pf_ret.outcome = "refresh" =>
        /\ pf_ret.npartitions = cpu
        /\ DOMAIN fs_parts = 0..(cpu - 1)
        /\ pf_ret.blocksize = CeilDiv(pf_ret.fsize, cpu)

\* pf has regenerated the partitions of a one-line file on a four-core host
C6_Witness ==
    /\ pf_ret.outcome = "refresh"
    /\ Len(fs_slxml.lines) = 1
    /\ cpu = 4

\* C7: the partition files are exactly those the last refresh wrote, and a
\* reusing call returns the records that refresh returned.
C7_CacheConsistent ==
    refreshed.done =>
        /\ DOMAIN fs_parts = refreshed.written
        /\ pf_ret.outcome = "reuse" => pf_ret.records = refreshed.records

\* a refresh has written fewer partitions than an earlier one, and pf reused
C7_Witness ==
    /\ pf_ret.outcome = "reuse"
    /\ refreshed.written # DOMAIN fs_parts

\* C8: a pf call that fails leaves every file as it was, whether the source
\* is missing or the failure comes later in the regeneration, and a reusing
\* call reads partitions that a completed refresh wrote.
C8_AllOrNothing ==
    /\ [][pf_ret'.outcome \in {"AssertionError", "ParseError", "UnboundLocalError"} =>
            /\ fs_map' = fs_map
            /\ fs_slxml' = fs_slxml
            /\ fs_parts' = fs_parts]_vars
    /\ [](pf_ret.outcome = "reuse" => refreshed.done)

\* get_element has failed partway, after pf wrote a line
C8_Witness ==
    /\ pf_ret.outcome = "ParseError"
    /\ Len(fs_slxml.lines) = 1

============================================================================
